---- MODULE Spec2Model ----
(***************************************************************************)
(* rusty-lock: a message-only window is created, registered for WTS        *)
(* session notifications, and a GetMessageA loop turns each message's      *)
(* wParam into a WtsState.  The model follows src/main.rs statement by     *)
(* statement; every OS entry point of src/wynapi.rs is an environment     *)
(* choice (its return value and the value it leaves in the thread's        *)
(* last-error slot).                                                       *)
(***************************************************************************)
EXTENDS Integers, Sequences, FiniteSets, TLC

\* ------------------------------------------------------------------ bounds
\* Messages GetMessageA may deliver (or appear to deliver) in one run.
MaxMsgs == 2
\* Largest small number the unit harness feeds to the two pure functions.
MaxArg == 130

\* ----------------------------------------------------- program constants
NULL == 0
NOTIFY_FOR_THIS_SESSION == 0
HWND_MESSAGE == -3

\* usize values far outside the table (0x99, and the largest value the
\* checker's integers hold, standing for 0xFFFFFFFF and beyond).
BigCodes == {153, 2147483647}

\* wParam values the OS delivers in the program runs: the codes of the
\* spec's scenarios (Logon, Lock, Unlock) and three undecodable ones.
WParams == {0, 5, 7, 8, 10, 153}

\* Message-type codes: the session-change notification and any other one.
MsgTypes == {"WM_WTSSESSION_CHANGE", "WM_OTHER"}

\* Values of the thread's last-error slot in the program runs: the seven
\* mapped codes' representatives and unmapped ones (0 = ERROR_SUCCESS,
\* 1400 = invalid window handle, 1410 = class already exists).
ErrCodes == {0, 5, 6, 1400, 1407, 1410}

\* Window handles CreateWindowExA may return, atoms RegisterClassExA may
\* return (0 is its failure value).
Handles == {NULL, 1}
Atoms == {0, 1}

\* Inputs of the unit harness: usize / DWORD (i32) values around and far
\* from the two tables.
UnitArgs == (-2 .. MaxArg) \cup {998, 1400, 1407, 1408, 1410} \cup BigCodes

VARIABLES
    pc,           \* position in main / in the unit harness
    lastError,    \* the thread's last-error slot (GetLastError)
    calls,        \* OS entry points called so far, in order
    createResult, \* what create_window_ex_a returned to main
    handle,       \* main's `handle`
    regResult,    \* what wts_register_session_notification returned
    msg,          \* what the last get_message_a returned to the loop
    retrieved,    \* MSG records get_message_a read, in order
    yielded,      \* Some(state) values handed to the loop body, in order
    reactions,    \* times the Lock arm of the match ran
    panicAt,      \* where the process panicked, "none" if it did not
    arg,          \* unit harness: the input
    ret           \* unit harness: the function applied and its result

vars == <<pc, lastError, calls, createResult, handle, regResult, msg,
          retrieved, yielded, reactions, panicAt, arg, ret>>

progVars == <<lastError, calls, createResult, handle, regResult, msg,
              retrieved, yielded, reactions, panicAt>>

\* ---------------------------------------------------------- pure functions

\* impl TryFrom<usize> for WtsState
TryFromSwapped(lparam) ==
    CASE lparam = 1 -> "ConsoleConnect"
      [] lparam = 2 -> "ConsoleDisconnect"
      [] lparam = 3 -> "RemoteConnect"
      [] lparam = 4 -> "RemoteDisconnnect"
      [] lparam = 5 -> "Logon"
      [] lparam = 6 -> "Logoff"
      [] lparam = 7 -> "Unlock"
      [] lparam = 8 -> "Lock"
      [] lparam = 9 -> "RemoteControl"
      [] OTHER -> "Err"

TryFrom(lparam) ==
    CASE lparam = 1 -> "ConsoleConnect"
      [] lparam = 2 -> "ConsoleDisconnect"
      [] lparam = 3 -> "RemoteConnect"
      [] lparam = 4 -> "RemoteDisconnnect"
      [] lparam = 5 -> "Logon"
      [] lparam = 6 -> "Logoff"
      [] lparam = 7 -> "Lock"
      [] lparam = 8 -> "Unlock"
      [] lparam = 9 -> "RemoteControl"
      [] OTHER -> "Err"

\* Error::get_last, as a function of the value GetLastError returns;
\* "unimplemented" is the panic of the catch-all arm.
get_last_lenient(err) ==
    CASE err = 5 -> "NOT_SUPPORTED"
      [] err = 6 -> "INVALID_HANDLE"
      [] err = 87 -> "INVALID_PARAMETER"
      [] err = 127 -> "PROC_NOT_FOUND"
      [] err = 998 -> "NOACCESS"
      [] err = 1407 -> "ERROR_CANNOT_FIND_WND_CLASS"
      [] err = 1408 -> "ERROR_WINDOW_OF_OTHER_THREAD"
      [] OTHER -> "INVALID_PARAMETER"

get_last(err) ==
    CASE err = 5 -> "NOT_SUPPORTED"
      [] err = 6 -> "INVALID_HANDLE"
      [] err = 87 -> "INVALID_PARAMETER"
      [] err = 127 -> "PROC_NOT_FOUND"
      [] err = 998 -> "NOACCESS"
      [] err = 1407 -> "ERROR_CANNOT_FIND_WND_CLASS"
      [] err = 1408 -> "ERROR_WINDOW_OF_OTHER_THREAD"
      [] OTHER -> "unimplemented"


\* ------------------------------------------------------------ OS call log
Call(fn, res, ok) == [fn |-> fn, res |-> res, ok |-> ok]

CallsOf(fn) == {i \in DOMAIN calls : calls[i].fn = fn}

\* The record main's loop holds for one read MSG: where its bytes came from
\* ("os": written by GetMessageA, "uninit": MaybeUninit never written).
Msg(src, message, wParam) == [src |-> src, message |-> message, wParam |-> wParam]

\* ------------------------------------------------------------------- Init
Init ==
    /\ pc = "create"
    /\ lastError \in ErrCodes
    /\ calls = <<>>
    /\ createResult = "unset"
    /\ handle = NULL
    /\ regResult = "unset"
    /\ msg = "unset"
    /\ retrieved = <<>>
    /\ yielded = <<>>
    /\ reactions = 0
    /\ panicAt = "none"
    /\ arg = 0
    /\ ret = "none"

\* ------------------------------------------------------------ main.rs:12
\* Option::unwrap on create_window_ex_a's result: where main goes next.
unwrap_or_default(opt) == "register"

unwrap(opt) == IF opt = "None" THEN "panicked" ELSE "register"

\* let handle = create_window_ex_a().unwrap();
MainCreate ==
    /\ pc = "create"
    /\ \E atom \in Atoms :
         LET c1 == calls \o <<Call("GetModuleHandleA", "ok", TRUE),
                              Call("RegisterClassExA", atom, atom # 0)>>
         IN
         \/ \* register_class_ex_a: res == 0, Error::get_last() panics
            /\ atom = 0
            /\ \E e \in ErrCodes :
                 /\ get_last(e) = "unimplemented"
                 /\ lastError' = e
            /\ calls' = c1 \o <<Call("GetLastError", lastError', TRUE)>>
            /\ pc' = "panicked"
            /\ panicAt' = "get_last"
            /\ UNCHANGED <<createResult, handle>>
         \/ \* register_class_ex_a returns None, .expect panics
            /\ atom = 0
            /\ \E e \in ErrCodes :
                 /\ get_last(e) # "unimplemented"
                 /\ lastError' = e
            /\ calls' = c1 \o <<Call("GetLastError", lastError', TRUE)>>
            /\ pc' = "panicked"
            /\ panicAt' = "expect"
            /\ UNCHANGED <<createResult, handle>>
         \/ /\ atom # 0
            /\ \E h \in Handles :
                 LET c2 == c1 \o <<Call("CreateWindowExA", h, h # NULL)>>
                 IN
                 \/ \* handle.is_null(), Error::get_last() panics
                    /\ h = NULL
                    /\ \E e \in ErrCodes :
                         /\ get_last(e) = "unimplemented"
                         /\ lastError' = e
                    /\ calls' = c2 \o <<Call("GetLastError", lastError', TRUE)>>
                    /\ pc' = "panicked"
                    /\ panicAt' = "get_last"
                    /\ UNCHANGED <<createResult, handle>>
                 \/ \* handle.is_null(), returns None; main's unwrap
                    /\ h = NULL
                    /\ \E e \in ErrCodes :
                         /\ get_last(e) # "unimplemented"
                         /\ lastError' = e
                    /\ calls' = c2 \o <<Call("GetLastError", lastError', TRUE)>>
                    /\ createResult' = "None"
                    /\ pc' = unwrap("None")
                    /\ panicAt' = IF pc' = "panicked" THEN "unwrap" ELSE "none"
                    /\ UNCHANGED handle
                 \/ \* Some(handle)
                    /\ h # NULL
                    /\ calls' = c2
                    /\ createResult' = "Some"
                    /\ handle' = h
                    /\ pc' = unwrap("Some")
                    /\ UNCHANGED <<lastError, panicAt>>
    /\ UNCHANGED <<regResult, msg, retrieved, yielded, reactions, arg, ret>>

\* ------------------------------------------------------------ main.rs:15
\* wts_register_session_notification(handle);   (the result is dropped)
MainRegister ==
    /\ pc = "register"
    /\ \E ok \in BOOLEAN :
         LET c1 == calls \o <<[fn |-> "WTSRegisterSessionNotification",
                               res |-> ok, ok |-> ok, hWnd |-> handle,
                               dwFlags |-> NOTIFY_FOR_THIS_SESSION]>>
         IN
         \/ /\ ~ok
            /\ \E e \in ErrCodes :
                 /\ get_last(e) = "unimplemented"
                 /\ lastError' = e
            /\ calls' = c1 \o <<Call("GetLastError", lastError', TRUE)>>
            /\ pc' = "panicked"
            /\ panicAt' = "get_last"
            /\ UNCHANGED regResult
         \/ /\ ~ok
            /\ \E e \in ErrCodes :
                 /\ get_last(e) # "unimplemented"
                 /\ lastError' = e
            /\ calls' = c1 \o <<Call("GetLastError", lastError', TRUE)>>
            /\ regResult' = "None"
            /\ pc' = "loop"
            /\ UNCHANGED panicAt
         \/ /\ ok
            /\ calls' = c1
            /\ regResult' = "Some"
            /\ pc' = "loop"
            /\ UNCHANGED <<lastError, panicAt>>
    /\ UNCHANGED <<createResult, handle, msg, retrieved, yielded, reactions,
                   arg, ret>>

\* ------------------------------------------------------------ main.rs:18
\* What `res` holds after GetMessageA, declared `-> bool`, returned: the
\* Win32 BOOL is nonzero for a message and 0 for WM_QUIT; its error value
\* -1 is not a valid bool, so the build may take it either way.
SeenAsBool(outcome) ==
    CASE outcome = "message" -> {TRUE}
      [] outcome = "quit" -> {FALSE}
      [] outcome = "error" -> {TRUE, FALSE}

\* `while let Some(msg) = ...`: the loop goes on exactly on Some.
WhileLetAlways(state) == "body"

WhileLet(state) == IF state = "Err" THEN "unregister" ELSE "body"

\* The sequence of values bound by `while let Some(msg)`, one more bound.
YieldFirst(ys, state, idx) == <<[state |-> state, idx |-> idx]>> \o ys

Yield(ys, state, idx) == Append(ys, [state |-> state, idx |-> idx])

\* get_message_a(handle), called by the loop head
MainGetMessage ==
    /\ pc = "loop"
    /\ \E outcome \in {"message", "quit", "error"} :
       \E res \in SeenAsBool(outcome) :
         LET c1 == calls \o <<[fn |-> "GetMessageA", res |-> outcome,
                               ok |-> res, hWnd |-> handle]>>
         IN
         \/ \* res == false, Error::get_last() panics
            /\ ~res
            /\ IF outcome = "error"
                 THEN lastError' \in ErrCodes
                 ELSE lastError' = lastError
            /\ get_last(lastError') = "unimplemented"
            /\ calls' = c1 \o <<Call("GetLastError", lastError', TRUE)>>
            /\ pc' = "panicked"
            /\ panicAt' = "get_last"
            /\ UNCHANGED <<msg, retrieved, yielded>>
         \/ \* res == false, returns None
            /\ ~res
            /\ IF outcome = "error"
                 THEN lastError' \in ErrCodes
                 ELSE lastError' = lastError
            /\ get_last(lastError') # "unimplemented"
            /\ calls' = c1 \o <<Call("GetLastError", lastError', TRUE)>>
            /\ msg' = "None"
            /\ pc' = "unregister"
            /\ UNCHANGED <<retrieved, yielded, panicAt>>
         \/ \* msg.assume_init(); msg.wParam.try_into().ok()
            /\ res
            /\ Len(retrieved) < MaxMsgs
            /\ IF outcome = "error"
                 THEN lastError' \in ErrCodes
                 ELSE lastError' = lastError
            /\ \E message \in MsgTypes, wParam \in WParams :
                 LET state == TryFrom(wParam)
                     src == IF outcome = "error" THEN "uninit" ELSE "os"
                 IN
                 /\ retrieved' = Append(retrieved, Msg(src, message, wParam))
                 /\ msg' = IF state = "Err" THEN "None" ELSE state
                 /\ yielded' = IF state = "Err"
                                 THEN yielded
                                 ELSE Yield(yielded, state, Len(retrieved'))
                 /\ pc' = WhileLet(state)
            /\ calls' = c1
            /\ UNCHANGED panicAt
    /\ UNCHANGED <<createResult, handle, regResult, reactions, arg, ret>>

\* ------------------------------------------------------- main.rs:19 - 24
\* match msg { WtsState::Lock => println!(..), _ => {} }
DispatchAny(m, n) == n + 1

Dispatch(m, n) == IF m = "Lock" THEN n + 1 ELSE n

MainBody ==
    /\ pc = "body"
    /\ reactions' = Dispatch(msg, reactions)
    /\ pc' = "loop"
    /\ UNCHANGED <<lastError, calls, createResult, handle, regResult, msg,
                   retrieved, yielded, panicAt, arg, ret>>

\* ------------------------------------------------------------ main.rs:28
\* wts_unregister_session_notification(handle);
MainUnregister ==
    /\ pc = "unregister"
    /\ calls' = calls \o <<[fn |-> "WTSUnRegisterSessionNotification",
                            res |-> "void", ok |-> TRUE, hWnd |-> handle]>>
    /\ pc' = "done"
    /\ UNCHANGED <<lastError, createResult, handle, regResult, msg,
                   retrieved, yielded, reactions, panicAt, arg, ret>>

Next ==
    \/ MainCreate
    \/ MainRegister
    \/ MainGetMessage
    \/ MainBody
    \/ MainUnregister

Spec == Init /\ [][Next]_vars

\* ------------------------------------------------------------ unit harness
\* The two pure functions applied to one input each.
UnitInit ==
    /\ pc = "unit"
    /\ arg \in UnitArgs
    /\ ret = "none"
    /\ lastError = 0
    /\ calls = <<>>
    /\ createResult = "unset"
    /\ handle = NULL
    /\ regResult = "unset"
    /\ msg = "unset"
    /\ retrieved = <<>>
    /\ yielded = <<>>
    /\ reactions = 0
    /\ panicAt = "none"

\* WtsState::try_from(arg), arg: usize
UnitTryFrom ==
    /\ pc = "unit"
    /\ arg >= 0
    /\ ret' = [fn |-> "try_from", out |-> TryFrom(arg)]
    /\ pc' = "unit_done"
    /\ UNCHANGED <<arg, progVars>>

\* Error::get_last() when GetLastError returns arg, arg: DWORD
UnitGetLast ==
    /\ pc = "unit"
    /\ ret' = [fn |-> "get_last", out |-> get_last(arg)]
    /\ pc' = "unit_done"
    /\ UNCHANGED <<arg, progVars>>

UnitNext ==
    \/ UnitTryFrom
    \/ UnitGetLast

UnitSpec == UnitInit /\ [][UnitNext]_vars

\* ================================================================ claims

GetCalls == CallsOf("GetMessageA")
RegCalls == CallsOf("WTSRegisterSessionNotification")
UnregCalls == CallsOf("WTSUnRegisterSessionNotification")
LoopExited == pc \in {"unregister", "done"}
Max(S) == CHOOSE x \in S : \A y \in S : y <= x

\* C1: a delivered message whose wParam is outside 0x1..0x9 yields no event
\* and does not end the loop: the loop is never left right after a
\* GetMessageA call that delivered a message.
C1_UndecodableDoesNotEndLoop ==
    /\ \A i \in DOMAIN yielded : retrieved[yielded[i].idx].wParam \in 1 .. 9
    /\ (LoopExited /\ GetCalls # {}) => calls[Max(GetCalls)].res # "message"

\* C2: try_from returns the listed variant for each code 0x1..0x9, a variant
\* no other code of the range gets, and failure for every other value.
C2_Variants ==
    <<"ConsoleConnect", "ConsoleDisconnect", "RemoteConnect",
      "RemoteDisconnnect", "Logon", "Logoff", "Lock", "Unlock",
      "RemoteControl">>

C2_DecoderTable ==
    (pc = "unit_done" /\ ret.fn = "try_from") =>
        /\ arg \in 1 .. 9 => ret.out = C2_Variants[arg]
        /\ arg \in 1 .. 9 => \A c \in (1 .. 9) \ {arg} : TryFrom(c) # ret.out
        /\ arg \notin 1 .. 9 => ret.out = "Err"

C2_Witness ==
    pc = "unit_done" /\ ret.fn = "try_from" /\ arg = 7 /\ ret.out = "Lock"

\* C3: unregistration is attempted only when registration succeeded before.
C3_UnregisterOnlyAfterSuccess ==
    UnregCalls # {} => regResult = "Some"

\* C4: when GetMessageA reports termination (WM_QUIT, returns 0), whatever
\* the last-error slot holds, the process does not panic, the loop is left
\* and no further retrieval follows.
C4_TerminationExitsCleanly ==
    \A g \in GetCalls : calls[g].res = "quit" =>
        /\ panicAt = "none"
        /\ LoopExited
        /\ g = Max(GetCalls)

\* C5: events are yielded in arrival order: every yielded event is the
\* decoding of one retrieved message, later events come from later
\* messages (so no message gives two events), and every decodable message
\* has given its event by the time the loop body or the next retrieval runs.
C5_ArrivalOrder ==
    /\ \A i \in DOMAIN yielded :
         /\ yielded[i].idx \in DOMAIN retrieved
         /\ yielded[i].state = TryFrom(retrieved[yielded[i].idx].wParam)
    /\ \A i, j \in DOMAIN yielded : i < j => yielded[i].idx < yielded[j].idx
    /\ \A k \in DOMAIN retrieved :
         TryFrom(retrieved[k].wParam) # "Err" =>
             \E i \in DOMAIN yielded : yielded[i].idx = k
    /\ pc = "body" =>
         /\ yielded # <<>>
         /\ yielded[Len(yielded)].idx = Len(retrieved)
         /\ yielded[Len(yielded)].state = msg

C5_Witness ==
    /\ pc = "done"
    /\ Len(yielded) = 2
    /\ yielded[1].state = "Logon"
    /\ yielded[2].state = "Lock"

\* C6: registration is attempted at most once, with the non-null handle a
\* successful window creation returned, before every message retrieval,
\* and never when window creation failed.
C6_RegisterOnceAfterCreate ==
    /\ Cardinality(RegCalls) <= 1
    /\ \A r \in RegCalls :
         /\ calls[r].hWnd # NULL
         /\ createResult = "Some"
         /\ \E c \in CallsOf("CreateWindowExA") : c < r /\ calls[c].ok
    /\ \A g \in GetCalls : \E r \in RegCalls : r < g
    /\ (\/ createResult = "None"
        \/ \E c \in CallsOf("CreateWindowExA") : ~calls[c].ok) => RegCalls = {}

C6_Witness ==
    /\ pc = "done"
    /\ Cardinality(RegCalls) = 1
    /\ Cardinality(GetCalls) >= 2

\* C7: once the loop has stopped, unregistration has been called exactly
\* once, after the last retrieval, when the run ends.
C7_UnregisterExactlyOnceAfterLoop ==
    /\ \A u \in UnregCalls : \A g \in GetCalls : g < u
    /\ (pc \in {"done", "panicked"} /\ GetCalls # {}) =>
           Cardinality(UnregCalls) = 1

\* C8: get_last maps 5, 6, 87, 127, 998, 1407, 1408 to NOT_SUPPORTED,
\* INVALID_HANDLE, INVALID_PARAMETER, PROC_NOT_FOUND, NOACCESS,
\* ERROR_CANNOT_FIND_WND_CLASS, ERROR_WINDOW_OF_OTHER_THREAD and panics on
\* every other code instead of returning a value.
C8_Reasons ==
    [c \in {5, 6, 87, 127, 998, 1407, 1408} |->
        CASE c = 5 -> "NOT_SUPPORTED"
          [] c = 6 -> "INVALID_HANDLE"
          [] c = 87 -> "INVALID_PARAMETER"
          [] c = 127 -> "PROC_NOT_FOUND"
          [] c = 998 -> "NOACCESS"
          [] c = 1407 -> "ERROR_CANNOT_FIND_WND_CLASS"
          [] c = 1408 -> "ERROR_WINDOW_OF_OTHER_THREAD"]

C8_ErrorTable ==
    (pc = "unit_done" /\ ret.fn = "get_last") =>
        IF arg \in DOMAIN C8_Reasons
          THEN ret.out = C8_Reasons[arg]
          ELSE ret.out = "unimplemented"

C8_Witness ==
    /\ pc = "unit_done"
    /\ ret.fn = "get_last"
    /\ arg = 1407
    /\ ret.out = "ERROR_CANNOT_FIND_WND_CLASS"

\* C9: a message the OS delivered yields an event only if its message type
\* is the session-change notification.
C9_OnlySessionChangeYields ==
    \A i \in DOMAIN yielded :
        retrieved[yielded[i].idx].src = "os" =>
            retrieved[yielded[i].idx].message = "WM_WTSSESSION_CHANGE"

\* C10: when a setup call of create_window_ex_a fails with a mapped error
\* reason, the function returns None to its caller; after a failed class
\* registration no window instantiation is attempted; no handle is returned.
C10_SetupFailureReturned ==
    /\ (\E c \in CallsOf("RegisterClassExA") : ~calls[c].ok) =>
           /\ CallsOf("CreateWindowExA") = {}
           /\ handle = NULL
           /\ panicAt # "get_last" => createResult = "None"
    /\ (\E c \in CallsOf("CreateWindowExA") : ~calls[c].ok) =>
           /\ handle = NULL
           /\ panicAt # "get_last" => createResult = "None"

\* What the OS reported for call i: GetMessageA fails with -1 ("error"; 0 is
\* WM_QUIT, not a failure), every other entry point with 0 / NULL / false.
OsFailed(i) ==
    IF calls[i].fn = "GetMessageA"
      THEN calls[i].res = "error"
      ELSE ~calls[i].ok

\* C11: class registration, window instantiation, notification registration
\* and unregistration are each attempted at most once, and an OS call that
\* failed is never followed by another call of the same entry point.
C11_NoRetries ==
    /\ \A f \in {"RegisterClassExA", "CreateWindowExA",
                 "WTSRegisterSessionNotification",
                 "WTSUnRegisterSessionNotification"} :
         Cardinality(CallsOf(f)) <= 1
    /\ \A i, j \in DOMAIN calls :
         (OsFailed(i) /\ i < j) => calls[j].fn # calls[i].fn

\* C12: when RegisterClassExA fails because the class already exists (last
\* error 1410), the process does not stop there: CreateWindowExA is still
\* called.
C12_ClassExistsNotFatal ==
    \A c \in CallsOf("RegisterClassExA") :
        (~calls[c].ok /\ calls[c + 1].res = 1410) =>
            /\ pc # "panicked"
            /\ CallsOf("CreateWindowExA") # {}

\* C13: in a run whose registration returned failure, GetMessageA is never
\* called.
C13_NoRetrievalAfterFailedRegistration ==
    regResult = "None" => GetCalls = {}

\* C14: when GetMessageA reports a hard failure (-1), the error is read for
\* the log, the loop is left (main is past it or the process is gone), no
\* MSG record is read from that retrieval, and no retrieval follows.
C14_HardFailureEndsLoop ==
    /\ \A k \in DOMAIN retrieved : retrieved[k].src # "uninit"
    /\ \A g \in GetCalls : calls[g].res = "error" =>
         /\ g = Max(GetCalls)
         /\ g < Len(calls) /\ calls[g + 1].fn = "GetLastError"
         /\ pc \in {"unregister", "done", "panicked"}

\* C15: every OS call that reported failure is directly followed by the
\* GetLastError read, and GetLastError is read only directly after an OS
\* call that reported failure.
C15_ErrorReadRightAfterFailure ==
    /\ \A i \in DOMAIN calls :
         (calls[i].fn # "GetLastError" /\ OsFailed(i)) =>
             (i < Len(calls) /\ calls[i + 1].fn = "GetLastError")
    /\ \A j \in CallsOf("GetLastError") :
         /\ j > 1
         /\ calls[j - 1].fn # "GetLastError"
         /\ OsFailed(j - 1)

\* C16: the Lock arm has run once for each Lock value the loop was handed
\* (the one in hand at the loop body still to come), so never for another
\* variant or for a message that yielded nothing, and it has run before the
\* next retrieval.
C16_Locks == {i \in DOMAIN yielded : yielded[i].state = "Lock"}

C16_ReactionPerLock ==
    reactions = Cardinality(C16_Locks)
                  - (IF pc = "body" /\ msg = "Lock" THEN 1 ELSE 0)

C16_Witness ==
    /\ pc = "done"
    /\ Len(yielded) = 2
    /\ yielded[1].state = "Lock"
    /\ yielded[2].state = "Unlock"
    /\ reactions = 1

====
